---- MODULE Spec2Model ----
(***************************************************************************)
(* The client side of the lead-generation pipeline: the usePipeline hook   *)
(* (frontend/src/hooks/usePipeline.ts) with the api helpers it calls       *)
(* (lib/api: startJob, getResults).  One run of startPipeline is an async  *)
(* function: it suspends at `await startJob`, and what follows runs as     *)
(* callbacks (stream listeners, the getResults continuation).  Every       *)
(* callback is one action; the server and the network are the environment  *)
(* that chooses when a request settles and what a stream delivers.         *)
(***************************************************************************)
EXTENDS Integers, Sequences, FiniteSets, TLC

(* ------------------------------ bounds --------------------------------- *)
\* startPipeline calls in one behaviour
MaxRuns == 2
\* progress events delivered in one behaviour of Spec
MaxEvents == 2

(* -------------------------- program constants -------------------------- *)
\* events.slice(-99): how many earlier entries the progress listener keeps
SliceKeep == 99

\* nullable values: null is the empty tuple, a value v is <<v>>
None == << >>
Some(v) == << v >>

Runs == 1..MaxRuns

\* The job_id the server answers run r's start request with.  The server
\* allocates a fresh identifier per job (spec 4.1), so distinct runs get
\* distinct ids.
JobIdOf(r) == r

\* total_progress is a fraction 0.0 .. 1.0; the model counts it in
\* thousandths.
TotalProgressValues == {305, 1000}

\* Messages a server `error` event may carry (the empty string is a string
\* like any other), and a `detail` a refused start request may carry.
Messages == {"Apollo returned no leads", ""}
Details == {"max_leads out of range"}

(* ------------------------------- state --------------------------------- *)
VARIABLES
    state,      \* the hook's PipelineState (useState)
    esRef,      \* esRef.current: the run whose EventSource it refers to
    calls,      \* startPipeline calls made so far; call k is run k
    startReq,   \* per run: the startJob promise
    es,         \* per run: the EventSource of that run's closure (`es`)
    serial,     \* progress events delivered so far, over all streams
    lastTp,     \* per run: total_progress of the last event of its stream
    fetch,      \* per run: the getResults promise
    received,   \* history: progress events handled since the last
                \* startPipeline / reset, in arrival order
    form,       \* ApolloForm: its useState values and its last onSubmit call
    statsBar,   \* StatsBar: the result it is given and what it displays
    progress,   \* PipelineProgress: the props App renders it with
    table       \* ResultsTable: its leads, its useState values, the lead
                \* the user last expanded

\* the components' variables; the hook's actions leave them alone
ui == << form, statsBar, progress, table >>

hook == << state, esRef, calls, startReq, es, serial, lastTp, fetch, received >>

vars == << state, esRef, calls, startReq, es, serial, lastTp, fetch, received,
           form, statsBar, progress, table >>

\* usePipeline.ts 24-31 / 36 / 98: the object literals the hook sets
IdleState ==
    [status |-> "idle", jobId |-> None, events |-> << >>,
     latestEvent |-> None, result |-> None, error |-> None]

RunningState ==
    [status |-> "running", jobId |-> None, events |-> << >>,
     latestEvent |-> None, result |-> None, error |-> None]

\* ApolloForm.tsx 12-15: the form's initial useState values; max_leads is
\* counted in tenths (see Number below), so 200 is 2000
FormInitial ==
    [url |-> << >>, maxLeads |-> 2000, skipGpt |-> FALSE, showConfig |-> FALSE,
     submitted |-> None]

\* a component that is not mounted
NotMounted == [mounted |-> FALSE]

UiInit ==
    /\ form = FormInitial
    /\ statsBar = NotMounted
    /\ progress = NotMounted
    /\ table = NotMounted

HookInit ==
    /\ state = IdleState
    /\ esRef = None
    /\ calls = 0
    /\ startReq = [r \in Runs |-> "none"]
    /\ es = [r \in Runs |-> "none"]
    /\ serial = 0
    /\ lastTp = [r \in Runs |-> 0]
    /\ fetch = [r \in Runs |-> "none"]
    /\ received = << >>

Init == HookInit /\ UiInit

(* ------------------------------ helpers -------------------------------- *)
\* Array.prototype.slice(-n): the last n elements, all of them if fewer
SliceLast(s, n) ==
    IF Len(s) <= n THEN s ELSE SubSeq(s, Len(s) - n + 1, Len(s))

\* EventSource.close() on run r's stream; the position of a closed stream
\* no longer matters and is forgotten
Closed(f, r) == [f EXCEPT ![r] = "closed"]
Forget(f, r) == [f EXCEPT ![r] = 0]

(* --------------------- lib/api: startJob, getResults ------------------- *)
\* What the network can answer a start request with, when it does not
\* answer 200: no answer at all (fetch rejects), or a non-OK response whose
\* body is JSON with or without a `detail`, or is not JSON.
StartFailures ==
    {[kind |-> "network", parsable |-> FALSE, detail |-> None,
      statusText |-> ""]}
    \cup {[kind |-> "http", parsable |-> FALSE, detail |-> None,
           statusText |-> "Unprocessable Entity"]}
    \cup {[kind |-> "http", parsable |-> TRUE, detail |-> d,
           statusText |-> "Unprocessable Entity"] :
             d \in {None} \cup {Some(m) : m \in Details}}

\* startJob: the message of the Error the promise rejects with.
\*   if (!res.ok) { const err = await res.json().catch(() => ({detail: res.statusText}))
\*                  throw new Error(err.detail ?? 'Failed to start job') }
\* A rejected fetch is the browser's TypeError.
startJob(resp) ==
    IF resp.kind = "network" THEN "Failed to fetch"
    ELSE LET err == IF resp.parsable THEN resp.detail
                    ELSE Some(resp.statusText)
         IN  IF err # None THEN err[1] ELSE "Failed to start job"

\* getResults(jobId) fulfilled: the server's projection of that job
getResults(jobId) == [job_id |-> jobId, status |-> "done"]

(* ------------------- usePipeline: the state updaters ------------------- *)
\* line 41: setState(s => ({ ...s, jobId: job_id }))
jobIdUpdate(s, job_id) == [s EXCEPT !.jobId = Some(job_id)]

\* Faulty variant: the progress listener keeping one entry too many: slice(-100)
progressUpdateKeepsAll(s, event) ==
    [s EXCEPT !.events = Append(SliceLast(s.events, SliceKeep + 1), event),
              !.latestEvent = Some(event)]

\* lines 50-54: the progress listener's updater
progressUpdate(s, event) ==
    [s EXCEPT !.events = Append(SliceLast(s.events, SliceKeep), event),
              !.latestEvent = Some(event)]

\* Faulty variant: the continuation setting the status and dropping the result
resultUpdateStatusOnly(s, result) == [s EXCEPT !.status = "done"]

\* line 61: the getResults continuation's updater
resultUpdate(s, result) ==
    [s EXCEPT !.status = "done", !.result = Some(result)]

\* The data of an event of type `error` dispatched at the EventSource:
\*   undefined   a native error event (connection lost): it has no data
\*   unparsable  a server event whose data is not JSON
\*   null        data is the JSON literal null
\*   noData      data is JSON without a `data` member
\*   noMessage   data is JSON whose `data` has no `message`
\*   message     data is JSON with data.message (a string, or null)
ErrorData ==
    {[kind |-> k, message |-> None] :
        k \in {"undefined", "unparsable", "null", "noData", "noMessage",
               "message"}}
    \cup {[kind |-> "message", message |-> Some(m)] : m \in Messages}

\* Faulty variant: `||` in place of `??`: an empty message falls back too
errorMsgOfFalsy(data) ==
    IF data.kind = "message" /\ data.message # None /\ data.message[1] # ""
    THEN data.message[1]
    ELSE "Pipeline failed"

\* lines 68-72:
\*   let errorMsg = 'Pipeline failed'
\*   try { const payload = JSON.parse(e.data)
\*         errorMsg = payload.data?.message ?? errorMsg } catch {}
\* JSON.parse throws on undefined and on non-JSON text, payload.data throws
\* on null; `?.` and `??` fall back on an absent or null member only.
errorMsgOf(data) ==
    CASE data.kind \in {"undefined", "unparsable", "null"} -> "Pipeline failed"
      [] data.kind \in {"noData", "noMessage"} -> "Pipeline failed"
      [] OTHER -> IF data.message # None THEN data.message[1]
                  ELSE "Pipeline failed"

\* line 73: setState(s => ({ ...s, status: 'error', error: errorMsg }))
errorUpdate(s, errorMsg) ==
    [s EXCEPT !.status = "error", !.error = Some(errorMsg)]

\* lines 76-85: es.onerror, run with the stream's readyState
onerrorUpdate(s, readyState) ==
    IF readyState = "closed" /\ s.status = "running"
    THEN [s EXCEPT !.status = "error",
                   !.error = Some("Connection to server lost")]
    ELSE s

\* lines 87-91: the catch block's updater
catchUpdate(s, message) ==
    [s EXCEPT !.status = "error", !.error = Some(message)]

(* ------------------------ usePipeline: actions ------------------------- *)
\* startPipeline, up to its `await startJob(req)` (lines 35-39).  The
\* request's fields are passed on to the server and never stored.
startPipeline ==
    /\ calls < MaxRuns
    /\ calls' = calls + 1
    /\ state' = RunningState
    /\ startReq' = [startReq EXCEPT ![calls + 1] = "pending"]
    /\ received' = << >>
    /\ UNCHANGED << esRef, es, serial, lastTp, fetch >>
    /\ UNCHANGED ui

\* startJob fulfilled: lines 41-85 run in one turn (the stream is opened
\* and its listeners are registered)
startJobFulfilled(r) ==
    /\ startReq[r] = "pending"
    /\ startReq' = [startReq EXCEPT ![r] = "fulfilled"]
    /\ state' = jobIdUpdate(state, JobIdOf(r))
    /\ es' = [es EXCEPT ![r] = "open"]
    /\ esRef' = Some(r)
    /\ UNCHANGED << calls, serial, lastTp, fetch, received >>
    /\ UNCHANGED ui

\* startJob rejected: the catch block (lines 86-92)
startJobRejected(r, resp) ==
    /\ startReq[r] = "pending"
    /\ startReq' = [startReq EXCEPT ![r] = "rejected"]
    /\ state' = catchUpdate(state, startJob(resp))
    /\ UNCHANGED << esRef, calls, es, serial, lastTp, fetch, received >>
    /\ UNCHANGED ui

\* The progress listener of run r's stream (lines 47-55) handling the
\* stream's next progress event.  An EventSource dispatches nothing once
\* it is closed; a job's total_progress never decreases (spec 3, 8).
progressListener(r, tp) ==
    /\ es[r] = "open"
    /\ tp >= lastTp[r]
    /\ LET event == [job |-> JobIdOf(r), seq |-> serial + 1,
                     total_progress |-> tp]
       IN  /\ state' = progressUpdate(state, event)
           /\ received' = Append(received, event)
    /\ serial' = serial + 1
    /\ lastTp' = [lastTp EXCEPT ![r] = tp]
    /\ UNCHANGED << esRef, calls, startReq, es, fetch >>
    /\ UNCHANGED ui

\* Faulty variant: the done listener without es.close()
doneListenerLeavesOpen(r) ==
    /\ es[r] = "open"
    /\ fetch[r] = "none"
    /\ esRef' = None
    /\ fetch' = [fetch EXCEPT ![r] = "pending"]
    /\ UNCHANGED << state, calls, startReq, es, serial, lastTp, received >>
    /\ UNCHANGED ui

\* The done listener of run r's stream (lines 57-63), up to the call of
\* getResults
doneListener(r) ==
    /\ es[r] = "open"
    /\ es' = Closed(es, r)
    /\ esRef' = None
    /\ fetch' = [fetch EXCEPT ![r] = "pending"]
    /\ lastTp' = Forget(lastTp, r)
    /\ UNCHANGED << state, calls, startReq, serial, received >>
    /\ UNCHANGED ui

\* getResults fulfilled: the `.then` continuation (lines 60-62)
getResultsFulfilled(r) ==
    /\ fetch[r] = "pending"
    /\ fetch' = [fetch EXCEPT ![r] = "fulfilled"]
    /\ state' = resultUpdate(state, getResults(JobIdOf(r)))
    /\ UNCHANGED << esRef, calls, startReq, es, serial, lastTp, received >>
    /\ UNCHANGED ui

\* getResults rejected (a non-OK answer or a network failure): the promise
\* chain of line 60 has no rejection handler, so nothing runs
getResultsRejected(r) ==
    /\ fetch[r] = "pending"
    /\ fetch' = [fetch EXCEPT ![r] = "rejected"]
    /\ UNCHANGED << state, esRef, calls, startReq, es, serial, lastTp, received >>
    /\ UNCHANGED ui

\* An event of type `error` dispatched at run r's stream: the listener of
\* lines 65-74 runs first (it was registered first) and closes the stream,
\* then es.onerror (lines 76-85) runs and reads readyState.
errorEvent(r, data) ==
    /\ es[r] = "open"
    /\ es' = Closed(es, r)
    /\ esRef' = None
    /\ state' = onerrorUpdate(errorUpdate(state, errorMsgOf(data)), es'[r])
    /\ lastTp' = Forget(lastTp, r)
    /\ UNCHANGED << calls, startReq, serial, fetch, received >>
    /\ UNCHANGED ui

\* reset (lines 95-99)
reset ==
    /\ es' = IF esRef # None THEN Closed(es, esRef[1]) ELSE es
    /\ lastTp' = IF esRef # None THEN Forget(lastTp, esRef[1]) ELSE lastTp
    /\ esRef' = None
    /\ state' = IdleState
    /\ received' = << >>
    /\ UNCHANGED << calls, startReq, serial, fetch >>
    /\ UNCHANGED ui

(* --------------------------- specifications ---------------------------- *)
Progress ==
    \E r \in Runs, tp \in TotalProgressValues :
        serial < MaxEvents /\ progressListener(r, tp)

Settle ==
    \/ \E r \in Runs : startJobFulfilled(r)
    \/ \E r \in Runs, resp \in StartFailures : startJobRejected(r, resp)
    \/ \E r \in Runs : getResultsFulfilled(r)
    \/ \E r \in Runs : getResultsRejected(r)

StreamEnd ==
    \/ \E r \in Runs : doneListener(r)
    \/ \E r \in Runs, data \in ErrorData : errorEvent(r, data)

\* The hook with any caller: startPipeline and reset at any time.
Next ==
    \/ startPipeline
    \/ reset
    \/ Settle
    \/ Progress
    \/ StreamEnd

Spec == Init /\ [][Next]_vars

\* The hook as App calls it (usePipeline.ts 132-147): the form, whose submit
\* calls startPipeline, is rendered only while status is 'idle', and the
\* "Nouveau pipeline" button, which calls reset, only while it is not.
AppSubmit == state.status = "idle" /\ startPipeline
AppReset == state.status # "idle" /\ reset

NextApp ==
    \/ AppSubmit
    \/ AppReset
    \/ Settle
    \/ Progress
    \/ StreamEnd

SpecApp == Init /\ [][NextApp]_vars

\* The hook when reset is never called.  A pending request eventually
\* settles (the browser answers or fails every fetch); nothing obliges the
\* caller to call startPipeline or the server to send an event.
NextNoReset ==
    \/ startPipeline
    \/ Settle
    \/ Progress
    \/ StreamEnd

SpecLive == Init /\ [][NextNoReset]_vars /\ WF_vars(Settle)

\* One stream at a time, delivering enough progress events to fill the log:
\* startPipeline is called only when no earlier run has a start request
\* pending or a stream open.
LogLimit == SliceKeep + MaxEvents + 1

NoRunOutstanding ==
    \A r \in Runs : startReq[r] # "pending" /\ es[r] # "open"

LogStart == NoRunOutstanding /\ startPipeline
LogOpen == \E r \in Runs : startJobFulfilled(r)
LogProgress ==
    \E r \in Runs : serial < LogLimit /\ progressListener(r, 1000)

NextLog ==
    \/ LogStart
    \/ LogOpen
    \/ LogProgress
    \/ reset

SpecLog == Init /\ [][NextLog]_vars


(* ============================== properties ============================= *)
\* PipelineProgress (ApolloForm.tsx 212): latestEvent?.total_progress ?? 0
totalProgress(s) ==
    IF s.latestEvent = None THEN 0 ELSE s.latestEvent[1].total_progress

\* the last entry of a non-empty array
Last(s) == s[Len(s)]

(* ------------------------------- C1 ------------------------------------ *)
\* C1: handling a `done` event of run r's stream closes that stream and
\* issues getResults for r's job without touching the state; status becomes
\* 'done' only in the step in which a pending getResults is fulfilled, and
\* that step stores the fetched result; so status = 'done' implies a
\* non-null result in every reachable state.
C1_DoneOnlyWithFetchedResult ==
    /\ [](state.status = "done" => state.result # None)
    /\ [][/\ \A r \in Runs :
                (fetch[r] = "none" /\ fetch'[r] = "pending")
                    => /\ es[r] = "open" /\ es'[r] = "closed"
                       /\ state' = state
          /\ (state'.status = "done" /\ state.status # "done")
                => \E r \in Runs :
                      /\ fetch[r] = "pending" /\ fetch'[r] = "fulfilled"
                      /\ state'.result = Some([job_id |-> JobIdOf(r),
                                               status |-> "done"])
         ]_vars

\* a run whose result fetch is fulfilled shows status 'done' with r's result
C1_Witness ==
    \E r \in Runs :
        /\ fetch[r] = "fulfilled"
        /\ state.status = "done"
        /\ state.result # None
        /\ state.result[1].job_id = JobIdOf(r)

(* ------------------------------- C2 ------------------------------------ *)
\* C2: when reset is never called, the latest run, once it has received
\* `done` and its result fetch has settled either way, is no longer in
\* status 'running'.
C2_DoneLeavesRunning ==
    \A r \in Runs :
        (r = calls /\ fetch[r] \in {"fulfilled", "rejected"})
            => state.status # "running"

(* ------------------------------- C3 ------------------------------------ *)
\* C3: an `error` event handled while status is 'running' leaves status
\* 'error'; error is the payload's data.message when the payload parses and
\* has one, and 'Pipeline failed' otherwise and only then.
C3_ErrorEventMessage ==
    [][\A r \in Runs, data \in ErrorData :
          (errorEvent(r, data) /\ state.status = "running")
              => /\ state'.status = "error"
                 /\ (data.kind = "message" /\ data.message # None)
                        => state'.error = data.message
                 /\ ~(data.kind = "message" /\ data.message # None)
                        => state'.error = Some("Pipeline failed")
                 /\ state'.error = Some("Pipeline failed")
                        => ~(data.kind = "message" /\ data.message # None)
      ]_vars

\* an `error` event that carried the empty message has been handled
C3_Witness ==
    /\ state.status = "error"
    /\ state.error = Some("")
    /\ \E r \in Runs : es[r] = "closed" /\ fetch[r] = "none"

(* ------------------------------- C4 ------------------------------------ *)
\* C4: the step that handles a `done` or an `error` event of a stream
\* leaves that stream closed; a closed stream stays closed, and no step
\* taken while it is closed appends one of its progress events to
\* state.events or makes one state.latestEvent.
C4_NoProgressAfterTerminal ==
    [][\A r \in Runs :
          /\ (doneListener(r) \/ \E data \in ErrorData : errorEvent(r, data))
                => es'[r] = "closed"
          /\ es[r] = "closed"
                => /\ es'[r] = "closed"
                   /\ (state'.latestEvent # state.latestEvent
                       /\ state'.latestEvent # None)
                          => state'.latestEvent[1].job # JobIdOf(r)
                   /\ (state'.events # state.events
                       /\ state'.events # << >>)
                          => Last(state'.events).job # JobIdOf(r)
      ]_vars

\* a stream closed by its `done` event, whose last progress event is shown
C4_Witness ==
    \E r \in Runs :
        /\ es[r] = "closed"
        /\ fetch[r] = "pending"
        /\ state.latestEvent # None
        /\ state.latestEvent[1].job = JobIdOf(r)

(* ------------------------------- C5 ------------------------------------ *)
\* C5: state.events never holds more than 100 entries, and it is the last
\* min(n, 100) of the n progress events received since the last
\* startPipeline / reset, in arrival order.
C5_EventsAreLastHundred ==
    LET n == Len(received)
        k == Len(state.events)
    IN  /\ k <= 100
        /\ k = IF n < 100 THEN n ELSE 100
        /\ \A i \in 1..k : state.events[i] = received[n - k + i]

\* more than 100 progress events were received and the oldest were dropped
C5_Witness ==
    /\ Len(received) > 100
    /\ Len(state.events) = 100
    /\ state.events[1] # received[1]

(* ------------------------------- C6 ------------------------------------ *)
\* C6: between a startPipeline call and the next reset or startPipeline
\* call, the total progress the client observes never decreases from one
\* state to the next (every stream emitting non-decreasing total_progress).
C6_ObservedProgressMonotone ==
    [][(state.status # "idle" /\ state'.status # "idle" /\ calls' = calls)
          => totalProgress(state') >= totalProgress(state)
      ]_vars

(* ------------------------------- C7 ------------------------------------ *)
\* C7: once status is 'done' or 'error', no step other than a call of reset
\* or startPipeline changes status, result or error.
C7_TerminalStatusIsStable ==
    [][(state.status \in {"done", "error"}
        /\ calls' = calls /\ state'.status # "idle")
          => /\ state'.status = state.status
             /\ state'.result = state.result
             /\ state'.error = state.error
      ]_vars

(* ------------------------------- C8 ------------------------------------ *)
\* C8: when a job b was started after an earlier job a, in every state with
\* state.jobId = b every entry of state.events comes from b's stream and
\* state.result, when non-null, is the result fetched for b.
C8_JobsIsolated ==
    \A a, b \in Runs :
        (a < b /\ b <= calls /\ state.jobId = Some(JobIdOf(b)))
            => /\ \A i \in 1..Len(state.events) :
                     state.events[i].job = JobIdOf(b)
               /\ state.result # None
                     => state.result[1].job_id = JobIdOf(b)

(* ------------------------------- C9 ------------------------------------ *)
\* C9: state.error is non-null exactly when state.status is 'error'.
C9_ErrorIffStatusError ==
    (state.error # None) <=> (state.status = "error")

(* ------------------------------- C10 ----------------------------------- *)
\* C10: the step that handles a start request refused by the server leaves
\* status 'error', error equal to the response's detail when it has one,
\* jobId null, no stream opened by that run, and events empty.
C10_RefusedStartLeavesNoJob ==
    [][\A r \in Runs, resp \in StartFailures :
          (startJobRejected(r, resp) /\ resp.kind = "http")
              => /\ state'.status = "error"
                 /\ (resp.parsable /\ resp.detail # None)
                        => state'.error = resp.detail
                 /\ state'.jobId = None
                 /\ es'[r] = "none"
                 /\ state'.events = << >>
      ]_vars

(* ------------------------------- C15 ----------------------------------- *)
\* C15: reset leaves the idle initial state, and from the idle initial
\* state no step other than a startPipeline call changes the state.
C15_ResetStaysIdle ==
    [][/\ (state.status # "idle" /\ state'.status = "idle")
              => state' = IdleState
       /\ (state = IdleState /\ calls' = calls)
              => state' = IdleState
      ]_vars

(* ------------------------------- C16 ----------------------------------- *)
\* C16: at most one stream is open, and an open stream is the one
\* esRef.current refers to.
C16_OneOpenStreamInEsRef ==
    /\ Cardinality({r \in Runs : es[r] = "open"}) <= 1
    /\ \A r \in Runs : es[r] = "open" => esRef = Some(r)

(* ------------------------------- C17 ----------------------------------- *)
\* C17: a native error event (the connection is lost; the event has no
\* data) handled while status is 'running' leaves status 'error' with error
\* 'Connection to server lost'.
C17_ConnectionLostMessage ==
    [][\A r \in Runs :
          (errorEvent(r, [kind |-> "undefined", message |-> None])
           /\ state.status = "running")
              => /\ state'.status = "error"
                 /\ state'.error = Some("Connection to server lost")
      ]_vars

(* ======================= ApolloForm (ApolloForm.tsx) =================== *)
\* longest text typed into the URL field
MaxUrlLen == 2

\* A text is a tuple of characters.  The URL field takes blanks and
\* non-blanks.
UrlChars == {" ", "u"}

RECURSIVE TextsUpTo(_, _)
TextsUpTo(chars, n) ==
    IF n = 0 THEN {<< >>}
    ELSE LET shorter == TextsUpTo(chars, n - 1)
         IN  shorter \cup {Append(s, c) : s \in shorter, c \in chars}

UrlTexts == TextsUpTo(UrlChars, MaxUrlLen)

\* String.prototype.trim: leading and trailing white space removed
RECURSIVE trim(_)
trim(s) ==
    IF s = << >> THEN s
    ELSE IF Head(s) = " " THEN trim(Tail(s))
    ELSE IF s[Len(s)] = " " THEN trim(SubSeq(s, 1, Len(s) - 1))
    ELSE s

\* Numbers are counted in tenths, so that 10.5 is a value.
Tenths(n) == n * 10
IsInteger(v) == v % 10 = 0

\* What e.target.value of the number input can be: empty, or a number
DigitValue ==
    [c \in {"0", "1", "2", "3", "4", "5", "6", "7", "8", "9"} |->
        CASE c = "0" -> 0 [] c = "1" -> 1 [] c = "2" -> 2 [] c = "3" -> 3
          [] c = "4" -> 4 [] c = "5" -> 5 [] c = "6" -> 6 [] c = "7" -> 7
          [] c = "8" -> 8 [] OTHER -> 9]

NumberTexts ==
    { << >>, <<"5">>, <<"1", "0">>, <<"2", "0", "0">>,
      <<"5", "0", "0", "0">>, <<"5", "0", "0", "1">>, <<"-", "1">>,
      <<"1", "0", ".", "5">> }

\* the digits of s read as a whole number, after the value acc
RECURSIVE Digits(_, _)
Digits(s, acc) ==
    IF s = << >> THEN acc
    ELSE Digits(Tail(s), acc * 10 + DigitValue[Head(s)])

\* Number(text), line 116: the empty text is 0; a sign, digits and at most
\* one decimal otherwise
RECURSIVE Number(_)
Number(s) ==
    IF s = << >> THEN 0
    ELSE IF Head(s) = "-" THEN 0 - Number(Tail(s))
    ELSE IF Len(s) >= 2 /\ s[Len(s) - 1] = "."
         THEN Tenths(Digits(SubSeq(s, 1, Len(s) - 2), 0))
              + DigitValue[s[Len(s)]]
    ELSE Tenths(Digits(s, 0))

\* The browser's constraint validation of <input type="number" min={10}
\* max={5000}> (lines 111-115; step defaults to 1): a value that is not a
\* whole number, or is out of range, blocks the form's submission.
NumberInputValid(v) ==
    IsInteger(v) /\ v >= Tenths(10) /\ v <= Tenths(5000)

\* line 76: setUrl(e.target.value)
setUrl(text) ==
    /\ form.submitted = None
    /\ form' = [form EXCEPT !.url = text]
    /\ UNCHANGED << hook, statsBar, progress, table >>

\* line 116: setMaxLeads(Number(e.target.value)); the input is rendered
\* only while the advanced settings are shown (line 104)
setMaxLeads(text) ==
    /\ form.submitted = None
    /\ form.showConfig
    /\ form' = [form EXCEPT !.maxLeads = Number(text)]
    /\ UNCHANGED << hook, statsBar, progress, table >>

\* line 137: setSkipGpt(!skipGpt), rendered with the advanced settings
setSkipGpt ==
    /\ form.submitted = None
    /\ form.showConfig
    /\ form' = [form EXCEPT !.skipGpt = ~form.skipGpt]
    /\ UNCHANGED << hook, statsBar, progress, table >>

\* line 96: setShowConfig(!showConfig)
setShowConfig ==
    /\ form.submitted = None
    /\ form' = [form EXCEPT !.showConfig = ~form.showConfig]
    /\ UNCHANGED << hook, statsBar, progress, table >>

\* The form is submitted (lines 22-26).  The submit button is disabled
\* while url.trim() is empty (line 164), and the browser validates the
\* controls that are rendered before it fires the submit event.
handleSubmit ==
    /\ form.submitted = None
    /\ trim(form.url) # << >>
    /\ form.showConfig => NumberInputValid(form.maxLeads)
    /\ form' = [form EXCEPT !.submitted =
                   Some([url |-> trim(form.url), max_leads |-> form.maxLeads,
                         skip_gpt |-> form.skipGpt])]
    /\ UNCHANGED << hook, statsBar, progress, table >>

\* App unmounts the form once the pipeline runs and mounts a new one after
\* reset (usePipeline.ts 145-147)
formRemount ==
    /\ form.submitted # None
    /\ form' = FormInitial
    /\ UNCHANGED << hook, statsBar, progress, table >>

NextForm ==
    \/ \E text \in UrlTexts : setUrl(text)
    \/ \E text \in NumberTexts : setMaxLeads(text)
    \/ setSkipGpt
    \/ setShowConfig
    \/ handleSubmit
    \/ formRemount

SpecForm == Init /\ [][NextForm]_vars

(* ------------------------------- C11 ----------------------------------- *)
\* C11: every request the form submits carries a non-empty trimmed url and
\* a max_leads that is a whole number within 10..5000.
C11_SubmittedRequestValid ==
    form.submitted # None
        => /\ form.submitted[1].url # << >>
           /\ trim(form.submitted[1].url) = form.submitted[1].url
           /\ IsInteger(form.submitted[1].max_leads)
           /\ form.submitted[1].max_leads >= Tenths(10)
           /\ form.submitted[1].max_leads <= Tenths(5000)

(* ========================= StatsBar (part_001) ========================= *)
\* largest total_leads of a result
MaxTotalLeads == 8

\* The counts of a JobResult, as the server sends them
ResultCounts ==
    { [total_leads |-> t, hit_leads |-> h, nohit_leads |-> n] :
        t \in 0..MaxTotalLeads, h \in 0..MaxTotalLeads, n \in 0..MaxTotalLeads }

\* Math.round(num / den) for num >= 0, den > 0: the nearest whole number,
\* halves upwards.  (hit_leads / total_leads) * 100 is computed in doubles;
\* for totals up to 9 the double result rounds as the exact quotient does.
MathRound(num, den) == (2 * num + den) \div (2 * den)

\* line 31
hitRate(result) ==
    IF result.total_leads > 0
    THEN MathRound(result.hit_leads * 100, result.total_leads)
    ELSE 0

\* StatsBar renders a result (lines 29-56): the two count cards and the
\* percentages of their sub lines (lines 48 and 55)
StatsBarRender(result) ==
    /\ statsBar' = [mounted |-> TRUE, result |-> result,
                    hitPct |-> hitRate(result),
                    nohitPct |-> 100 - hitRate(result)]
    /\ UNCHANGED << hook, form, progress, table >>

\* App stops rendering the bar after reset (usePipeline.ts 159-166)
StatsBarUnmount ==
    /\ statsBar.mounted
    /\ statsBar' = NotMounted
    /\ UNCHANGED << hook, form, progress, table >>

NextStats ==
    \/ \E result \in ResultCounts :
          /\ result.hit_leads <= result.total_leads
          /\ result.nohit_leads <= result.total_leads
          /\ StatsBarRender(result)
    \/ StatsBarUnmount

SpecStats == Init /\ [][NextStats]_vars

(* ------------------------------- C12 ----------------------------------- *)
\* C12: with total_leads = 0 the hit-rate percentage and the no-hit
\* percentage StatsBar displays are both 0.
C12_ZeroTotalShowsZero ==
    (statsBar.mounted /\ statsBar.result.total_leads = 0)
        => statsBar.hitPct = 0 /\ statsBar.nohitPct = 0

(* ------------------------------- C13 ----------------------------------- *)
\* the whole number p nearest to num / den, halves upwards
RoundHalfUp(num, den) ==
    CHOOSE p \in 0..(num + den) :
        2 * den * p <= 2 * num + den /\ 2 * num + den < 2 * den * (p + 1)

\* C13: for total_leads > 0 and hit_leads + nohit_leads = total_leads, the
\* displayed hit percentage is round-half-up of 100 * hit_leads /
\* total_leads, the displayed no-hit percentage is round-half-up of
\* 100 * nohit_leads / total_leads, and both lie in 0..100.
C13_PercentagesRoundHalfUp ==
    ( /\ statsBar.mounted
      /\ statsBar.result.total_leads > 0
      /\ statsBar.result.hit_leads + statsBar.result.nohit_leads
            = statsBar.result.total_leads )
        => /\ statsBar.hitPct
                = RoundHalfUp(100 * statsBar.result.hit_leads,
                              statsBar.result.total_leads)
           /\ statsBar.nohitPct
                = RoundHalfUp(100 * statsBar.result.nohit_leads,
                              statsBar.result.total_leads)
           /\ statsBar.hitPct \in 0..100
           /\ statsBar.nohitPct \in 0..100

(* ================== PipelineProgress (ApolloForm.tsx) ================== *)
\* largest step number an event carries
MaxStep == 6

\* lines 185-191, by id
STEPS == << 1, 2, 3, 4, 5 >>

StepIds == {STEPS[i] : i \in DOMAIN STEPS}

\* total_progress of an event, in thousandths
ProgressFractions == TotalProgressValues \cup {0, 500}

\* The ProgressEvents a stream delivers
ProgressEvents ==
    [step : 0..MaxStep, total_progress : ProgressFractions, message : Messages]

\* Faulty variant: API step 3 shown as display step 2.
mapApiStepToDisplayGoogle(apiStep) ==
    IF apiStep <= 2 THEN apiStep
    ELSE IF apiStep = 3 THEN 2
    ELSE IF apiStep = 4 THEN 4
    ELSE 5

\* lines 194-200
mapApiStepToDisplay(apiStep) ==
    IF apiStep <= 2 THEN apiStep
    ELSE IF apiStep = 3 THEN 3
    ELSE IF apiStep = 4 THEN 4
    ELSE 5

\* line 211
currentDisplayStep(props) ==
    IF props.latestEvent # None
    THEN mapApiStepToDisplay(props.latestEvent[1].step)
    ELSE 0

\* lines 251-253
isCompleted(props, id) ==
    props.status = "done" \/ currentDisplayStep(props) > id

isActive(props, id) ==
    props.status = "running" /\ currentDisplayStep(props) = id

isPending(props, id) == ~isCompleted(props, id) /\ ~isActive(props, id)

\* App renders PipelineProgress when status turns 'running'
\* (usePipeline.ts 149-157); startPipeline has set latestEvent to null
PipelineProgressMount ==
    /\ ~progress.mounted
    /\ progress' = [mounted |-> TRUE, status |-> "running", latestEvent |-> None]
    /\ UNCHANGED << hook, form, statsBar, table >>

\* A progress event re-renders with a new latestEvent; the stream's steps
\* do not decrease.
PipelineProgressEvent(event) ==
    /\ progress.mounted
    /\ progress.status = "running"
    /\ progress.latestEvent # None => event.step >= progress.latestEvent[1].step
    /\ progress' = [progress EXCEPT !.latestEvent = Some(event)]
    /\ UNCHANGED << hook, form, statsBar, table >>

\* The run fails: status 'error', latestEvent kept
PipelineProgressError ==
    /\ progress.mounted
    /\ progress.status = "running"
    /\ progress' = [progress EXCEPT !.status = "error"]
    /\ UNCHANGED << hook, form, statsBar, table >>

\* Status 'done' or 'idle': App renders PipelineProgress no longer
PipelineProgressUnmount ==
    /\ progress.mounted
    /\ progress' = NotMounted
    /\ UNCHANGED << hook, form, statsBar, table >>

NextProgress ==
    \/ PipelineProgressMount
    \/ \E event \in ProgressEvents : PipelineProgressEvent(event)
    \/ PipelineProgressError
    \/ PipelineProgressUnmount

SpecProgress == Init /\ [][NextProgress]_vars

(* ------------------------------- C14 ----------------------------------- *)
StagesSequential ==
    progress.mounted =>
        /\ (progress.latestEvent # None /\ progress.latestEvent[1].step \in StepIds)
              => currentDisplayStep(progress) = progress.latestEvent[1].step
        /\ \A id \in StepIds :
              /\ isCompleted(progress, id) <=> id < currentDisplayStep(progress)
              /\ isActive(progress, id) => progress.status = "running"
              /\ id > currentDisplayStep(progress) => isPending(progress, id)
        /\ Cardinality({id \in StepIds : isActive(progress, id)}) <= 1

CompletedStays ==
    (progress.mounted /\ progress'.mounted)
        => \A id \in StepIds :
              isCompleted(progress, id) => isCompleted(progress', id)

\* C14: for a latest event with step in 1..5 the display step is that step;
\* the completed steps are exactly those with id below the display step; at
\* most one step is active, and only while status is 'running'; every later
\* step is pending; and a completed step stays completed as events arrive
\* with non-decreasing step.
C14_StagesStrictlySequential ==
    []StagesSequential /\ [][CompletedStays]_vars

C14_Witness ==
    /\ progress.mounted
    /\ progress.status = "running"
    /\ progress.latestEvent # None
    /\ progress.latestEvent[1].step = 3
    /\ isCompleted(progress, 1) /\ isCompleted(progress, 2)
    /\ isActive(progress, 3)
    /\ isPending(progress, 4) /\ isPending(progress, 5)

(* ==================== ResultsTable (ResultsTable.tsx) ================= *)
\* line 6
PAGE_SIZE == 10

\* longest lead list of a result
MaxLeads == 21

\* A lead list has every HitPeriod-th lead a hit
HitPeriods == {1, 2, 3}

\* The i-th lead of a result (part_000 15-29).  id is its position in the
\* result, which no two leads share; the optional text fields are absent or
\* hold a text; only hit leads went through the AI enrichment and carry an
\* activity_summary.
Lead(i, period) ==
    [id |-> i,
     is_hit |-> (i % period = 0),
     first_name |-> IF i % 3 = 0 THEN None ELSE Some(<<"A", "b">>),
     company |-> IF i % 2 = 0 THEN Some(<<"b">>) ELSE Some(<<"a", " ", "b">>),
     activity_summary |-> IF i % period = 0 THEN Some(<<"s">>) ELSE None]

LeadLists ==
    { [i \in 1..n |-> Lead(i, period)] : n \in 1..MaxLeads, period \in HitPeriods }

Tabs == {"all", "hit", "nohit"}

\* texts typed into the search field
SearchTexts == { << >>, <<" ">>, <<"a">>, <<"A", "b">>, <<"b">> }

\* String.prototype.toLowerCase
LowerChar(c) == CASE c = "A" -> "a" [] c = "B" -> "b" [] OTHER -> c
toLowerCase(s) == [i \in 1..Len(s) |-> LowerChar(s[i])]

\* String.prototype.includes
includes(v, q) ==
    \E i \in 0..(Len(v) - Len(q)) : SubSeq(v, i + 1, i + Len(q)) = q

\* Array.prototype.slice(from, to), 0-based, to exclusive
slice(s, from, to) ==
    SubSeq(s, from + 1, IF to < Len(s) THEN to ELSE Len(s))

\* Math.ceil(n / d)
MathCeil(n, d) == (n + d - 1) \div d

\* lines 21-35
filtered(leads, tab, search) ==
    LET isHit(l) == l.is_hit
        isNoHit(l) == ~l.is_hit
        list == IF tab = "hit" THEN SelectSeq(leads, isHit)
                ELSE IF tab = "nohit" THEN SelectSeq(leads, isNoHit)
                ELSE leads
        q == toLowerCase(search)
        matches(l) ==
            \E v \in {l.first_name, l.company} :
                v # None /\ includes(toLowerCase(v[1]), q)
    IN  IF trim(search) # << >> THEN SelectSeq(list, matches) ELSE list

\* line 37
pageCount(tbl) ==
    MathCeil(Len(filtered(tbl.leads, tbl.tab, tbl.search)), PAGE_SIZE)

\* line 38
pageLeadsOf(tbl, p) ==
    slice(filtered(tbl.leads, tbl.tab, tbl.search),
          p * PAGE_SIZE, (p + 1) * PAGE_SIZE)

pageLeads(tbl) == pageLeadsOf(tbl, tbl.page)

\* lines 16-19; App renders the table for a result with leads
\* (usePipeline.ts 162-164).  clicked records the lead of the last click
\* that expanded a row.
ResultsTableMount(leads) ==
    /\ ~table.mounted
    /\ table' = [mounted |-> TRUE, leads |-> leads, tab |-> "all",
                 search |-> << >>, page |-> 0, expandedRow |-> None,
                 clicked |-> None]
    /\ UNCHANGED << hook, form, statsBar, progress >>

\* Faulty variant: the tab changes and the page index is kept.
handleTabChangeKeepsPage(t) ==
    /\ table.mounted
    /\ table' = [table EXCEPT !.tab = t]
    /\ UNCHANGED << hook, form, statsBar, progress >>

\* line 40
handleTabChange(t) ==
    /\ table.mounted
    /\ table' = [table EXCEPT !.tab = t, !.page = 0]
    /\ UNCHANGED << hook, form, statsBar, progress >>

\* line 92
searchChange(text) ==
    /\ table.mounted
    /\ table' = [table EXCEPT !.search = text, !.page = 0]
    /\ UNCHANGED << hook, form, statsBar, progress >>

\* lines 243-256: rendered when pageCount > 1, disabled on the first page
previousPage ==
    /\ table.mounted
    /\ pageCount(table) > 1
    /\ table.page # 0
    /\ table' = [table EXCEPT !.page = IF table.page - 1 > 0 THEN table.page - 1 ELSE 0]
    /\ UNCHANGED << hook, form, statsBar, progress >>

\* lines 257-266: rendered when pageCount > 1, disabled on the last page
nextPage ==
    /\ table.mounted
    /\ pageCount(table) > 1
    /\ table.page # pageCount(table) - 1
    /\ table' = [table EXCEPT !.page =
                    IF table.page + 1 < pageCount(table) - 1
                    THEN table.page + 1 ELSE pageCount(table) - 1]
    /\ UNCHANGED << hook, form, statsBar, progress >>

\* lines 123-124
globalIdx(tbl, i) == tbl.page * PAGE_SIZE + i
isExpanded(tbl, i) == tbl.expandedRow = Some(globalIdx(tbl, i))

\* line 130: a click on the i-th row of the page (i from 0)
rowClick(i) ==
    /\ table.mounted
    /\ i < Len(pageLeads(table))
    /\ table' = [table EXCEPT
                   !.expandedRow = IF isExpanded(table, i) THEN None
                                   ELSE Some(globalIdx(table, i)),
                   !.clicked = IF isExpanded(table, i) THEN None
                               ELSE Some(pageLeads(table)[i + 1].id)]
    /\ UNCHANGED << hook, form, statsBar, progress >>

NextTable ==
    \/ \E leads \in LeadLists : ResultsTableMount(leads)
    \/ \E t \in Tabs : handleTabChange(t)
    \/ \E text \in SearchTexts : searchChange(text)
    \/ previousPage
    \/ nextPage
    \/ \E i \in 0..(PAGE_SIZE - 1) : rowClick(i)

SpecTable == Init /\ [][NextTable]_vars

(* ------------------------------- C18 ----------------------------------- *)
\* pages 0 .. p-1 of the table, one after the other
RECURSIVE PagesUpTo(_, _)
PagesUpTo(tbl, p) ==
    IF p = 0 THEN << >>
    ELSE PagesUpTo(tbl, p - 1) \o pageLeadsOf(tbl, p - 1)

\* C18: 0 <= page < max(pageCount, 1) with pageCount = ceil(filtered.length
\* / 10); the visible page is non-empty whenever the filtered list is; and
\* the pages, in order, make up the filtered list with at most 10 leads
\* each.
C18_PageWithinRange ==
    table.mounted =>
        LET list == filtered(table.leads, table.tab, table.search)
            count == pageCount(table)
        IN  /\ count * PAGE_SIZE >= Len(list)
            /\ (count - 1) * PAGE_SIZE < Len(list) \/ (count = 0 /\ list = << >>)
            /\ table.page >= 0
            /\ table.page < (IF count > 1 THEN count ELSE 1)
            /\ list # << >> => pageLeads(table) # << >>
            /\ PagesUpTo(table, count) = list
            /\ \A p \in 0..(count - 1) :
                  /\ Len(pageLeadsOf(table, p)) <= PAGE_SIZE
                  /\ Len(pageLeadsOf(table, p)) >= 1

C18_Witness ==
    /\ table.mounted
    /\ table.tab = "hit"
    /\ table.search # << >>
    /\ table.page >= 1
    /\ table.page = pageCount(table) - 1
    /\ Len(pageLeads(table)) < PAGE_SIZE

(* ------------------------------- C19 ----------------------------------- *)
\* C19: a detail row rendered as expanded shows the lead whose row the user
\* last clicked to expand, never another lead at the same index of the
\* filtered list.
C19_ExpandedRowIsClickedLead ==
    table.mounted =>
        \A i \in 0..(Len(pageLeads(table)) - 1) :
            (isExpanded(table, i) /\ pageLeads(table)[i + 1].activity_summary # None)
                => table.clicked = Some(pageLeads(table)[i + 1].id)

====
